---- MODULE Spec2Model ----
(***************************************************************************)
(* Catch (bsuite) environment of gymnax: reset / step / get_obs as pure    *)
(* functions over the 6-field state vector                                 *)
(*   [ball_x, ball_y, paddle_x, paddle_y, time, done]                      *)
(* driven by an external caller that supplies a seed and an action; and     *)
(* the Discrete and Tuple space descriptors with sample and contains.      *)
(***************************************************************************)
EXTENDS Integers, Sequences, FiniteSets, TLC

\* ---------------------------------------------------------------- bounds
\* number of distinct PRNG keys the driver may pass
NumSeeds == 5
\* the driver stops stepping once the time field reaches this value
MaxTime == 22
\* a short max_steps_in_episode the driver may pass instead of the default
ShortEpisode == 12
\* largest num_categories of a Discrete space under test
MaxCategories == 3
\* largest number of entries of a Tuple space under test
MaxSpaces == 2

Seeds == 0 .. (NumSeeds - 1)

\* ------------------------------------------------------ program constants
rows == 10
columns == 5
\* actions the driver may pass: 0 = left, 1 = no-op, 2 = right
Actions == {0, 1, 2}
\* default environment parameters
params_catch == [max_steps_in_episode |-> 2000]
\* the params records the driver may pass
ParamsSet == {params_catch, [max_steps_in_episode |-> ShortEpisode]}

VARIABLES
    state,      \* the state vector returned by the last call (0-indexed)
    obs,        \* the observation returned by the last call
    reward,     \* the reward returned by the last step call (0 after reset)
    done,       \* the done flag returned by the last step call (a boolean)
    call,       \* the last call: its name and its arguments
    nsteps,     \* history: number of step calls since the last reset
    since,      \* history: number of step calls since the last reset or
                \* the last step call that returned done
    self,       \* the space object under test
    invoke,     \* the method called on it, with its argument
    ret         \* what that call returned or the exception it raised;
                \* pending while the call has not returned

catchVars == <<state, obs, reward, done, call, nsteps, since>>
spaceVars == <<self, invoke, ret>>
vars == <<state, obs, reward, done, call, nsteps, since, self, invoke, ret>>

\* ------------------------------------------------------------- primitives
\* a python bool used in arithmetic
B2I(b) == IF b THEN 1 ELSE 0

\* jnp.array([...]) : a 0-indexed vector
jnp_array(seq) == [i \in 0 .. (Len(seq) - 1) |-> seq[i + 1]]

\* the random bits drawn from a key: a fixed mixing function of the key
\* (16 bits wide here)
random_bits(rng) == (rng * 1229 + 13849) % (2 ^ 16)

\* jax.random.randint(rng, shape=(), minval, maxval): an integer in
\* [minval, maxval); an empty range is widened to the single value minval
randint(rng, minval, maxval) ==
    LET span == IF maxval <= minval THEN 1 ELSE maxval - minval
    IN  minval + (random_bits(rng) % span)

\* mutant: the upper bound is not applied
clip_NoUpper(x, lo, hi) == IF x < lo THEN lo ELSE x

\* mutant: the lower bound is not applied
clip_NoLower(x, lo, hi) == IF x > hi THEN hi ELSE x

\* jnp.clip(x, lo, hi)
clip(x, lo, hi) == IF x < lo THEN lo ELSE IF x > hi THEN hi ELSE x

\* ------------------------------------------------------ sample_init_state
\* mutant: the ball column is drawn from [0, columns - 1)
sample_init_state_ShortRange(rng, params) ==
    <<randint(rng, 0, columns - 1), 0, columns \div 2, rows - 1>>

sample_init_state(rng, params) ==
    LET ball_x   == randint(rng, 0, columns)
        ball_y   == 0
        paddle_x == columns \div 2
        paddle_y == rows - 1
    IN  <<ball_x, ball_y, paddle_x, paddle_y>>

\* ----------------------------------------------------------------- get_obs
zeros == [r \in 0 .. (rows - 1) |-> [c \in 0 .. (columns - 1) |-> 0]]

\* jax.ops.index_update(board, index[r, c], v)
index_update(board, r, c, v) == [board EXCEPT ![r][c] = v]

\* mutant: the paddle cell is not drawn
get_obs_BallOnly(st, params) == index_update(zeros, st[1], st[0], 1)

get_obs(st, params) ==
    LET board0 == zeros
        board1 == index_update(board0, st[1], st[0], 1)
        board2 == index_update(board1, st[3], st[2], 1)
    IN  board2

\* ------------------------------------------------------------------- reset
reset(rng, params) ==
    LET init == sample_init_state(rng, params)
    IN  jnp_array(<<init[1], init[2], init[3], init[4], 0, 0>>)

\* -------------------------------------------------------------------- step
\* the four blended fields, each from the transition when prev_done = 0 and
\* from the freshly sampled initial state when prev_done = 1
\* mutant: the paddle is not re-centred when the previous step was terminal
step_paddle_x_NoBlend(st, action, fresh, prev_done) ==
    clip(st[2] + (action - 1), 0, columns - 1)

\* mutant: the paddle moves against the action
step_paddle_x_Reversed(st, action, fresh, prev_done) ==
    clip(st[2] - (action - 1), 0, columns - 1) * (1 - prev_done)
      + fresh[3] * prev_done

step_paddle_x(st, action, fresh, prev_done) ==
    LET dx == action - 1
    IN  clip(st[2] + dx, 0, columns - 1) * (1 - prev_done)
          + fresh[3] * prev_done

\* mutant: the ball stays on the paddle row after a terminal step
step_ball_y_Absorbing(st, fresh, prev_done) ==
    (st[1] + 1) * (1 - prev_done) + st[1] * prev_done

\* mutant: the ball is not dropped
step_ball_y_NoDrop(st, fresh, prev_done) ==
    st[1] * (1 - prev_done) + fresh[2] * prev_done

\* mutant: the call that auto-resets also drops the ball
step_ball_y_DropOnReset(st, fresh, prev_done) ==
    (st[1] + 1) * (1 - prev_done) + (fresh[2] + 1) * prev_done

step_ball_y(st, fresh, prev_done) ==
    (st[1] + 1) * (1 - prev_done) + fresh[2] * prev_done

\* mutant: the ball column is re-sampled on every step
step_ball_x_Resample(st, fresh, prev_done) == fresh[1]

step_ball_x(st, fresh, prev_done) ==
    st[0] * (1 - prev_done) + fresh[1] * prev_done

step_paddle_y(st, fresh, prev_done) ==
    st[3] * (1 - prev_done) + fresh[4] * prev_done

\* mutant: the episode ends one row above the paddle row
step_done_Early(ball_y, paddle_y) == (ball_y = paddle_y - 1)

\* mutant: the episode ends one row below the paddle row
step_done_Late(ball_y, paddle_y) == (ball_y = paddle_y + 1)

step_done(ball_y, paddle_y) == (ball_y = paddle_y)

step_catched(paddle_x, ball_x) == (paddle_x = ball_x)

\* mutant: the reward is not masked by done
step_reward_NoMask(d, catched) ==
    1 * B2I(catched) + (-1) * (1 - B2I(catched))

step_reward(d, catched) ==
    B2I(d) * (1 * B2I(catched) + (-1) * (1 - B2I(catched)))

\* mutant: time restarts when the previous step was terminal
step_time_Restart(st) == (st[4] + 1) * (1 - st[5])

step_time(st) == st[4] + 1

\* mutant: the episode is also ended when time reaches max_steps_in_episode
step_Truncate(rng, params, st, action) ==
    LET fresh     == sample_init_state(rng, params)
        prev_done == st[5]
        paddle_x  == step_paddle_x(st, action, fresh, prev_done)
        ball_y    == step_ball_y(st, fresh, prev_done)
        ball_x    == step_ball_x(st, fresh, prev_done)
        paddle_y  == step_paddle_y(st, fresh, prev_done)
        time      == step_time(st)
        d         == step_done(ball_y, paddle_y)
                       \/ time >= params.max_steps_in_episode
        catched   == step_catched(paddle_x, ball_x)
        r         == step_reward(d, catched)
    IN  [state  |-> jnp_array(<<ball_x, ball_y, paddle_x, paddle_y,
                                time, B2I(d)>>),
         reward |-> r,
         done   |-> d]

\* step(rng_input, params, state, action): the new state, reward and done
step(rng, params, st, action) ==
    LET fresh     == sample_init_state(rng, params)
        prev_done == st[5]
        paddle_x  == step_paddle_x(st, action, fresh, prev_done)
        ball_y    == step_ball_y(st, fresh, prev_done)
        ball_x    == step_ball_x(st, fresh, prev_done)
        paddle_y  == step_paddle_y(st, fresh, prev_done)
        d         == step_done(ball_y, paddle_y)
        catched   == step_catched(paddle_x, ball_x)
        r         == step_reward(d, catched)
        time      == step_time(st)
    IN  [state  |-> jnp_array(<<ball_x, ball_y, paddle_x, paddle_y,
                                time, B2I(d)>>),
         reward |-> r,
         done   |-> d]

\* ----------------------------------------------------------------- actions
NoState == jnp_array(<<0, 0, 0, 0, 0, 0>>)

\* the state the program is in after reset(rng, params)
AfterReset(rng, params) ==
    /\ state  = reset(rng, params)
    /\ obs    = get_obs(reset(rng, params), params)
    /\ reward = 0
    /\ done   = FALSE
    /\ call   = [op |-> "reset", rng |-> rng, params |-> params,
                 action |-> 1, state |-> NoState]
    /\ nsteps = 0
    /\ since  = 0

\* no space object has been constructed
NoSpace ==
    /\ self   = [type |-> "none"]
    /\ invoke = [op |-> "none"]
    /\ ret    = [type |-> "none", data |-> <<>>]

Init ==
    /\ \E rng \in Seeds, params \in ParamsSet : AfterReset(rng, params)
    /\ NoSpace

\* the driver re-seeds the environment: reset(rng, params)
Reset(rng, params) ==
    /\ state'  = reset(rng, params)
    /\ obs'    = get_obs(reset(rng, params), params)
    /\ reward' = 0
    /\ done'   = FALSE
    /\ call'   = [op |-> "reset", rng |-> rng, params |-> params,
                  action |-> 1, state |-> NoState]
    /\ nsteps' = 0
    /\ since'  = 0
    /\ UNCHANGED spaceVars

\* the driver advances the environment: step(rng, params, state, action)
Step(rng, params, action) ==
    /\ state[4] < MaxTime
    /\ LET out == step(rng, params, state, action)
       IN  /\ state'  = out.state
           /\ obs'    = get_obs(out.state, params)
           /\ reward' = out.reward
           /\ done'   = out.done
           /\ since'  = IF out.done THEN 0 ELSE since + 1
    /\ call'   = [op |-> "step", rng |-> rng, params |-> params,
                  action |-> action, state |-> state]
    /\ nsteps' = nsteps + 1
    /\ UNCHANGED spaceVars

Next ==
    \/ \E rng \in Seeds, params \in ParamsSet : Reset(rng, params)
    \/ \E rng \in Seeds, params \in ParamsSet, action \in Actions :
          Step(rng, params, action)

Spec == Init /\ [][Next]_vars

\* ------------------------------------------------------ a greedy driver
\* the action that moves the paddle towards the ball column
Policy(st) == IF st[2] > st[0] THEN 0 ELSE IF st[2] < st[0] THEN 2 ELSE 1

\* the driver steps with the action the policy picks for the current state
PolicyStep(rng, params) == Step(rng, params, Policy(state))

PolicyNext ==
    \/ \E rng \in Seeds, params \in ParamsSet : Reset(rng, params)
    \/ \E rng \in Seeds, params \in ParamsSet : PolicyStep(rng, params)

PolicySpec == Init /\ [][PolicyNext]_vars

\* ------------------------------------------------------------------ spaces
\* python and jax values, tagged with their type
ScalarV(v)  == [type |-> "scalar", data |-> <<v>>]
ArrayV(seq) == [type |-> "array", data |-> seq]
TupleV(seq) == [type |-> "tuple", data |-> seq]
PyInt(i)    == [type |-> "int", v |-> i]
\* the TypeError exception leaving a call
TypeError   == [type |-> "TypeError", data |-> <<>>]

\* Discrete.__init__
Discrete(num_categories) ==
    [type |-> "Discrete", num_categories |-> num_categories]

\* Tuple.__init__
Tuple(spaces) ==
    [type |-> "Tuple", spaces |-> spaces, num_spaces |-> Len(spaces)]

\* mutant: the upper bound passed to randint is num_categories + 1
Discrete_sample_Wide(space, rng) ==
    ScalarV(randint(rng, 0, space.num_categories + 1))

\* mutant: the upper bound passed to randint is num_categories
Discrete_sample_Full(space, rng) ==
    ScalarV(randint(rng, 0, space.num_categories))

\* Discrete.sample
Discrete_sample(space, rng) ==
    ScalarV(randint(rng, 0, space.num_categories - 1))

\* Discrete.contains: x >= 0 and x < num_categories, elementwise on an
\* array; a python tuple cannot be compared with an int
Discrete_contains(space, x) ==
    IF x.type \notin {"scalar", "array"}
    THEN TypeError
    ELSE [type |-> x.type,
          data |-> [j \in DOMAIN x.data |->
                      x.data[j] >= 0 /\ x.data[j] < space.num_categories]]

\* jax.random.split(rng, num): num sub-keys derived from the key
split(rng, num) == [i \in 1 .. num |-> (rng * 251 + i * 7919) % (2 ^ 16)]

\* enumerate(list): the pairs (index, element)
enumerate(list) == [j \in 1 .. Len(list) |-> <<PyInt(j - 1), list[j]>>]

\* list[key]: a list is indexed by integers only
getitem(list, key) ==
    IF key.type = "int" /\ key.v >= 0 /\ key.v < Len(list)
    THEN list[key.v + 1]
    ELSE TypeError

\* Tuple.sample: the comprehension binds i, k to (index, element) and looks
\* up self.spaces[k]
Tuple_sample(space, rng) ==
    LET key_split == split(rng, space.num_spaces)
        pairs     == enumerate(space.spaces)
        sub(j)    == getitem(space.spaces, pairs[j][2])
    IN  IF \E j \in DOMAIN pairs : sub(j) = TypeError
        THEN TypeError
        ELSE TupleV([j \in DOMAIN pairs |->
                Discrete_sample(sub(j), key_split[pairs[j][1].v + 1]).data[1]])

\* 1 - b for a boolean scalar or array b
one_minus(b) ==
    [type |-> b.type, data |-> [j \in DOMAIN b.data |-> 1 - B2I(b.data[j])]]

\* a + b with a scalar broadcast over an array
add(a, b) ==
    IF a.type = "scalar" /\ b.type = "scalar"
    THEN ScalarV(a.data[1] + b.data[1])
    ELSE IF a.type = "scalar"
    THEN ArrayV([j \in DOMAIN b.data |-> a.data[1] + b.data[j]])
    ELSE IF b.type = "scalar"
    THEN ArrayV([j \in DOMAIN a.data |-> a.data[j] + b.data[1]])
    ELSE ArrayV([j \in DOMAIN a.data |-> a.data[j] + b.data[j]])

\* out_of_space after the first n iterations of the loop of Tuple.contains:
\* every entry is asked about the whole of x
RECURSIVE out_of_space(_, _, _)
out_of_space(space, x, n) ==
    IF n = 0
    THEN ScalarV(0)
    ELSE LET before == out_of_space(space, x, n - 1)
             inside == Discrete_contains(space.spaces[n], x)
         IN  IF before = TypeError \/ inside = TypeError
             THEN TypeError
             ELSE add(before, one_minus(inside))

\* Tuple.contains
Tuple_contains(space, x) ==
    LET total == out_of_space(space, x, space.num_spaces)
    IN  IF total = TypeError
        THEN TypeError
        ELSE [type |-> total.type,
              data |-> [j \in DOMAIN total.data |-> total.data[j] = 0]]

\* the space objects under test
Categories == 0 .. MaxCategories
DiscreteSpaces == {Discrete(n) : n \in Categories}
SeqsUpTo(S, n) == UNION {[1 .. m -> S] : m \in 0 .. n}
TupleSpaces == {Tuple(sp) : sp \in SeqsUpTo(DiscreteSpaces, MaxSpaces)}

\* the values passed to contains
Components == -1 .. MaxCategories
Vectors == UNION {[1 .. m -> Components] : m \in 1 .. MaxSpaces}
XValues ==
    {ScalarV(v) : v \in Components}
      \cup {ArrayV(seq) : seq \in Vectors}
      \cup {TupleV(seq) : seq \in Vectors}

\* the method calls under test
Invocations ==
    {[op |-> "sample", rng |-> rng] : rng \in Seeds}
      \cup {[op |-> "contains", x |-> x] : x \in XValues}

Pending == [type |-> "pending", data |-> <<>>]

\* a space object has been constructed and one of its methods called with
\* an argument; the call has not returned yet
SpaceInit ==
    /\ AfterReset(0, params_catch)
    /\ self \in DiscreteSpaces \cup TupleSpaces
    /\ invoke \in Invocations
    /\ ret = Pending

DiscreteSample ==
    /\ self.type = "Discrete" /\ invoke.op = "sample" /\ ret = Pending
    /\ ret' = Discrete_sample(self, invoke.rng)
    /\ UNCHANGED <<self, invoke, catchVars>>

DiscreteContains ==
    /\ self.type = "Discrete" /\ invoke.op = "contains" /\ ret = Pending
    /\ ret' = Discrete_contains(self, invoke.x)
    /\ UNCHANGED <<self, invoke, catchVars>>

TupleSample ==
    /\ self.type = "Tuple" /\ invoke.op = "sample" /\ ret = Pending
    /\ ret' = Tuple_sample(self, invoke.rng)
    /\ UNCHANGED <<self, invoke, catchVars>>

TupleContains ==
    /\ self.type = "Tuple" /\ invoke.op = "contains" /\ ret = Pending
    /\ ret' = Tuple_contains(self, invoke.x)
    /\ UNCHANGED <<self, invoke, catchVars>>

SpaceNext ==
    \/ DiscreteSample
    \/ DiscreteContains
    \/ TupleSample
    \/ TupleContains

SpaceSpec == SpaceInit /\ [][SpaceNext]_vars

\* ------------------------------------------------------------- field names
ball_x   == state[0]
ball_y   == state[1]
paddle_x == state[2]
paddle_y == state[3]
time     == state[4]
done_flag == state[5]

TypeOK ==
    /\ DOMAIN state = 0 .. 5
    /\ reward \in {-1, 0, 1}
    /\ done \in BOOLEAN
    /\ call.op \in {"reset", "step"}

\* ------------------------------------------------------------ observations
Cells == (0 .. (rows - 1)) \X (0 .. (columns - 1))

\* the cells of a grid that are set to 1
SetCells(o) == {rc \in Cells : o[rc[1]][rc[2]] = 1}

\* o is a rows x columns grid of 0/1 whose set cells are exactly the ball
\* cell and the paddle cell of st
Rendered(o, st) ==
    /\ DOMAIN o = 0 .. (rows - 1)
    /\ \A r \in 0 .. (rows - 1) :
          /\ DOMAIN o[r] = 0 .. (columns - 1)
          /\ \A c \in 0 .. (columns - 1) :
                o[r][c] = IF \/ (r = st[1] /\ c = st[0])
                             \/ (r = st[3] /\ c = st[2])
                          THEN 1 ELSE 0

\* ------------------------------------------------------------------ claims

\* C1: every state reached by reset followed by step calls (actions in
\* {0,1,2}, any seeds) has 0 <= ball_x < 5, 0 <= paddle_x < 5, paddle_y = 9,
\* 0 <= ball_y <= 9 and done in {0,1}.
C1_StateInvariants ==
    /\ 0 <= ball_x /\ ball_x < 5
    /\ 0 <= paddle_x /\ paddle_x < 5
    /\ paddle_y = 9
    /\ 0 <= ball_y /\ ball_y <= 9
    /\ done_flag \in {0, 1}

\* the paddle was pushed against the left wall in a later episode
C1_Witness ==
    /\ call.op = "step" /\ call.action = 0
    /\ call.state[2] = 0 /\ paddle_x = 0
    /\ time > 10

\* C2: after every step call the returned done flag, and the done field of
\* the new state, is 1 exactly when the new ball_y is 9, whatever the
\* columns of ball and paddle.
C2_DoneIffPaddleRow ==
    call.op = "step" =>
        /\ done <=> (ball_y = 9)
        /\ (done_flag = 1) <=> (ball_y = 9)

\* a step ended the episode with the paddle away from the ball
C2_Witness ==
    /\ call.op = "step" /\ done /\ ball_y = 9 /\ paddle_x # ball_x

\* C3: after every step call reward = +1 iff done and paddle_x = ball_x,
\* reward = -1 iff done and paddle_x # ball_x, reward = 0 iff not done; a
\* no-op step from a running state with ball_y = 8 and paddle_x = ball_x
\* returns done = 1 and reward = +1.
C3_RewardLaw ==
    call.op = "step" =>
        /\ (reward = 1)  <=> (done_flag = 1 /\ paddle_x = ball_x)
        /\ (reward = -1) <=> (done_flag = 1 /\ paddle_x # ball_x)
        /\ (reward = 0)  <=> (done_flag = 0)
        /\ ( /\ call.action = 1 /\ call.state[5] = 0
             /\ call.state[1] = 8 /\ call.state[2] = call.state[0] )
           => (done /\ done_flag = 1 /\ reward = 1)

\* the no-op step of the scenario was taken
C3_Witness ==
    /\ call.op = "step" /\ call.action = 1 /\ call.state[5] = 0
    /\ call.state[1] = 8 /\ call.state[2] = call.state[0]
    /\ reward = 1

\* C4: a step on a state whose done field is 1 returns a fresh initial
\* configuration derived from that call's seed, whatever the action and the
\* old positions: ball_y = 0, paddle_x = 2, paddle_y = 9, ball_x the column
\* reset samples from the same seed, done = 0 and reward = 0.
C4_AutoReset ==
    (call.op = "step" /\ call.state[5] = 1) =>
        /\ ball_y = 0
        /\ paddle_x = 2
        /\ paddle_y = 9
        /\ ball_x = reset(call.rng, call.params)[0]
        /\ done_flag = 0 /\ ~done
        /\ reward = 0

\* an auto-reset with a moving action, from a state whose paddle and ball
\* were elsewhere
C4_Witness ==
    /\ call.op = "step" /\ call.state[5] = 1
    /\ call.action = 2
    /\ call.state[2] \notin {1, 2} /\ call.state[0] # ball_x

\* C5: a state with done = 1 is never immediately followed by another state
\* with done = 1.
C5_DonePulse == [][state[5] = 1 => state'[5] = 0]_vars

\* the step after a terminal step has returned
C5_Witness ==
    /\ call.op = "step" /\ call.state[5] = 1 /\ done_flag = 0
    /\ call.state[1] = 9

\* C6: under repeated step calls a state with done = 1 is reached within at
\* most 10 further step calls from every state: no state has 10 or more
\* step calls behind it since the last reset or terminal step.
C6_EpisodesTerminate == since \in 0 .. 9

\* a second episode ended without any explicit reset in between
C6_Witness ==
    /\ call.op = "step" /\ done_flag = 1 /\ nsteps = 19 /\ since = 0

\* C7: reset returns ball_x in [0,5), ball_y = 0, paddle_x = 2,
\* paddle_y = 9, time = 0, done = 0 and the observation rendered from that
\* state; every column 0..4 is the ball_x of some seed.
C7_Reset ==
    /\ call.op = "reset" =>
          /\ ball_x \in 0 .. 4
          /\ ball_y = 0
          /\ paddle_x = 2
          /\ paddle_y = 9
          /\ time = 0
          /\ done_flag = 0
          /\ Rendered(obs, state)
    /\ \A c \in 0 .. 4 : \E rng \in Seeds : reset(rng, params_catch)[0] = c

\* reset dropped the ball in the rightmost column
C7_Witness ==
    /\ call.op = "reset" /\ ball_x = 4 /\ obs[0][4] = 1 /\ obs[9][2] = 1

\* C8 as stated: the observation of every reachable state, terminal states
\* included, has exactly two cells set to 1, the ball cell and the paddle
\* cell, and every other cell 0.
C8_Original ==
    /\ Rendered(obs, state)
    /\ Cardinality(SetCells(obs)) = 2

\* C8 amended: the observation of every reachable state is a 10 x 5 grid
\* whose cells at (ball_y, ball_x) and (paddle_y, paddle_x) are 1 and whose
\* other cells are 0; exactly two cells are set unless the state is terminal
\* with paddle_x = ball_x, where the single shared cell is set.
C8_Observation ==
    /\ Rendered(obs, state)
    /\ Cardinality(SetCells(obs)) =
          IF done_flag = 1 /\ paddle_x = ball_x THEN 1 ELSE 2

\* the ball was caught: ball and paddle share one cell
C8_Witness ==
    /\ call.op = "step" /\ done_flag = 1 /\ paddle_x = ball_x
    /\ SetCells(obs) = {<<9, ball_x>>}

\* C9: in every state with done = 0 the ball cell and the paddle cell are
\* distinct (ball_y < paddle_y) and the observation has exactly two set
\* cells; the two cells coincide only in a terminal state.
C9_DistinctCells ==
    /\ done_flag = 0 =>
          /\ ball_y < paddle_y
          /\ <<ball_y, ball_x>> # <<paddle_y, paddle_x>>
          /\ Cardinality(SetCells(obs)) = 2
    /\ <<ball_y, ball_x>> = <<paddle_y, paddle_x>> => done_flag = 1

\* a running state with the ball right above the paddle
C9_Witness ==
    /\ call.op = "step" /\ done_flag = 0
    /\ ball_y = 8 /\ ball_x = paddle_x

\* C10: every step call sets time to time + 1, the auto-reset call
\* included: after reset and k step calls time = k, and time is never 0
\* after a step.
C10_TimeCounts ==
    /\ time = nsteps
    /\ call.op = "reset" => time = 0
    /\ call.op = "step" => (time = call.state[4] + 1 /\ time > 0)

\* the auto-reset call that follows the first terminal step
C10_Witness ==
    /\ call.op = "step" /\ call.state[5] = 1 /\ ball_y = 0 /\ time = 10

\* C11: step never truncates on time: its outputs are the same for every
\* params, and from a state with time >= params.max_steps_in_episode the
\* returned done is still 1 exactly when the ball reaches the paddle row,
\* so time grows past max_steps_in_episode.
C11_NoTruncation ==
    call.op = "step" =>
        /\ \A p \in ParamsSet :
              /\ step(call.rng, p, call.state, call.action)
                   = [state |-> state, reward |-> reward, done |-> done]
              /\ get_obs(state, p) = obs
        /\ call.state[4] >= call.params.max_steps_in_episode =>
              /\ done <=> (ball_y = 9)
              /\ (done_flag = 1) <=> (ball_y = 9)

\* a step taken past max_steps_in_episode left the episode running
C11_Witness ==
    /\ call.op = "step"
    /\ call.state[4] >= call.params.max_steps_in_episode
    /\ time > call.params.max_steps_in_episode
    /\ done_flag = 0 /\ ~done /\ ball_y # 9

\* C16: a step on a running state (done = 0) with action a in {0,1,2} sets
\* paddle_x to min(4, max(0, paddle_x + a - 1)): left, stay, right, except
\* that the paddle stays at column 0 or 4 when pushed against the wall; so
\* the paddle moves by at most one column.
C16_PaddleMove ==
    (call.op = "step" /\ call.state[5] = 0) =>
        LET old    == call.state[2]
            target == old + call.action - 1
            lower  == IF target > 0 THEN target ELSE 0
            capped == IF lower < 4 THEN lower ELSE 4
        IN  /\ paddle_x = capped
            /\ (call.action = 0 /\ old > 0) => paddle_x = old - 1
            /\ call.action = 1 => paddle_x = old
            /\ (call.action = 2 /\ old < 4) => paddle_x = old + 1
            /\ (call.action = 0 /\ old = 0) => paddle_x = 0
            /\ (call.action = 2 /\ old = 4) => paddle_x = 4
            /\ paddle_x - old \in {-1, 0, 1}

\* the paddle was pushed right while against the right wall
C16_Witness ==
    /\ call.op = "step" /\ call.state[5] = 0
    /\ call.action = 2 /\ call.state[2] = 4 /\ paddle_x = 4

\* C17: a step on a running state (done = 0) leaves ball_x and paddle_y
\* unchanged and increases ball_y by exactly 1, whatever the seed and the
\* action.
C17_BallFrame ==
    (call.op = "step" /\ call.state[5] = 0) =>
        /\ ball_x = call.state[0]
        /\ paddle_y = call.state[3]
        /\ ball_y = call.state[1] + 1

\* a running step whose seed would have sampled another column
C17_Witness ==
    /\ call.op = "step" /\ call.state[5] = 0
    /\ reset(call.rng, call.params)[0] # ball_x
    /\ call.action # 1 /\ ball_y = 5

\* C19: in every state reached from reset by step calls, ball_y = time mod
\* 10 and done = 1 exactly when time mod 10 = 9: the first episode ends on
\* the 9th step call, every later one 10 step calls after the previous.
C19_Period ==
    /\ ball_y = time % 10
    /\ (done_flag = 1) <=> (time % 10 = 9)
    /\ (call.op = "step" /\ done) => (nsteps >= 9 /\ nsteps % 10 = 9)

\* the second episode ended on the 19th step call
C19_Witness ==
    /\ call.op = "step" /\ done /\ time = 19 /\ ball_y = 9

\* C20: under the policy that moves the paddle towards the ball column,
\* every terminating step of a run started by reset returns reward +1, for
\* every sampled ball column and across auto-resets; no step returns -1.
C20_Winnable ==
    /\ (call.op = "step" /\ done_flag = 1) => (reward = 1 /\ paddle_x = ball_x)
    /\ reward # -1

\* a ball dropped two columns from the centre was caught in a later episode
C20_Witness ==
    /\ call.op = "step" /\ done /\ reward = 1
    /\ ball_x = 0 /\ time = 19

\* C13: for every Discrete space with num_categories n >= 1 and every seed,
\* contains(sample(seed)) is true, where contains(v) holds exactly when
\* 0 <= v < n.
C13_SampleContained ==
    /\ ( /\ self.type = "Discrete" /\ self.num_categories >= 1
         /\ invoke.op = "sample" /\ ret # Pending ) =>
          /\ ret.type = "scalar"
          /\ Discrete_contains(self, ret) = ScalarV(TRUE)
          /\ 0 <= ret.data[1] /\ ret.data[1] < self.num_categories
    /\ ( /\ self.type = "Discrete" /\ invoke.op = "contains"
         /\ invoke.x.type = "scalar" /\ ret # Pending ) =>
          /\ ret.type = "scalar"
          /\ ret.data[1] <=> ( /\ 0 <= invoke.x.data[1]
                               /\ invoke.x.data[1] < self.num_categories )

\* a space with a single category was sampled
C13_Witness ==
    /\ self.type = "Discrete" /\ self.num_categories = 1
    /\ invoke.op = "sample" /\ ret = ScalarV(0)

\* C14 as stated: Tuple(spaces).contains(x), for x with one component per
\* entry, is true exactly when spaces[i].contains(x[i]) is true for every i.
C14_Original ==
    ( /\ self.type = "Tuple" /\ invoke.op = "contains"
      /\ invoke.x.type \in {"array", "tuple"}
      /\ Len(invoke.x.data) = self.num_spaces
      /\ ret # Pending ) =>
        ( /\ ret.type # "TypeError"
          /\ \A j \in DOMAIN ret.data : ret.data[j] )
        <=> (\A i \in 1 .. self.num_spaces :
                /\ 0 <= invoke.x.data[i]
                /\ invoke.x.data[i] < self.spaces[i].num_categories)

\* C15 as stated: Tuple(spaces).sample(seed), for a non-empty Tuple, returns
\* without error a tuple with one value per entry, the i-th being
\* spaces[i].sample of the i-th sub-seed.
C15_Original ==
    ( /\ self.type = "Tuple" /\ self.num_spaces > 0
      /\ invoke.op = "sample" /\ ret # Pending ) =>
        /\ ret.type = "tuple"
        /\ Len(ret.data) = self.num_spaces
        /\ \A i \in 1 .. self.num_spaces :
              ret.data[i] =
                Discrete_sample(self.spaces[i],
                                split(invoke.rng, self.num_spaces)[i]).data[1]

====
